---- MODULE Spec2Model ----
(***************************************************************************)
(* Container command-line resolution of tfx:                               *)
(*   tfx/dsl/components/_command_line_resolver.py  (resolve_command_line)  *)
(*   tfx/orchestration/launcher/container_common.py                        *)
(*       (resolve_container_template, _render_items, _render_text,         *)
(*        resolve_command_line_for_non_managed, to_swagger_dict)           *)
(*                                                                         *)
(* Python values are records carrying their runtime type in `type`, so     *)
(* that isinstance tests, truthiness and str() are computed and not        *)
(* assumed.                                                                *)
(***************************************************************************)
EXTENDS Integers, Sequences, FiniteSets, TLC

VARIABLES
  container_spec_tmpl,    \* argument of resolve_container_template
  input_dict,             \* argument: name -> list of artifacts
  output_dict,            \* argument: name -> list of artifacts
  exec_properties,        \* argument: name -> scalar
  debug,                  \* __debug__ of the interpreter (False under -O)
  pc,                     \* position of the call
  idx,                    \* position of the for loop over the command
  resolved_command_line,  \* local of resolve_command_line
  getter_calls,           \* getters invoked so far, in order
  render_calls,           \* _render_text invocations so far, in order
  image,                  \* image computed for the result (free-text mode)
  command,                \* command computed for the result (free-text mode)
  result,                 \* value returned, None while none is returned
  error,                  \* exception raised, "none" while none is raised
  config,                 \* argument of to_swagger_dict
  swagger                 \* value returned by to_swagger_dict

vars == <<container_spec_tmpl, input_dict, output_dict, exec_properties, debug,
          pc, idx, resolved_command_line, getter_calls, render_calls, image,
          command, result, error, config, swagger>>

callVars == <<container_spec_tmpl, input_dict, output_dict, exec_properties,
              debug>>

swaggerVars == <<config, swagger>>

(***************************************************************************)
(* Bounds                                                                  *)
(***************************************************************************)
MaxLen == 2

(***************************************************************************)
(* Python values                                                           *)
(***************************************************************************)
None == [type |-> "NoneType", repr |-> "None"]

PyStr(s) == [type |-> "str", repr |-> s]

PyInt(s) == [type |-> "int", repr |-> s]

PyList(items) == [type |-> "list", items |-> items]

PyDict(items) == [type |-> "dict", items |-> items]

Artifact(uri) == [type |-> "Artifact", uri |-> PyStr(uri)]

InputValuePlaceholder(name) ==
  [type |-> "InputValuePlaceholder", input_name |-> name]

InputUriPlaceholder(name) ==
  [type |-> "InputUriPlaceholder", input_name |-> name]

OutputUriPlaceholder(name) ==
  [type |-> "OutputUriPlaceholder", output_name |-> name]

\* An exception in flight, as the value an expression evaluates to.
Raise(kind) == [type |-> "raise", repr |-> kind]

IsRaise(v) == v.type = "raise"

SeqsUpTo(S, n) == UNION {[1..k -> S] : k \in 0..n}


(***************************************************************************)
(* Python built-in behaviour used by the code                              *)
(***************************************************************************)
\* Truth value testing: `not items`, `x or []`, `if getattr(config, key)`.
\* An instance of a class defining neither __bool__ nor __len__ is true.
Truthy(v) ==
  CASE v.type = "NoneType" -> FALSE
    [] v.type = "bool" -> v.repr = "True"
    [] v.type = "int" -> v.repr # "0"
    [] v.type = "str" -> v.repr # ""
    [] v.type = "list" -> Len(v.items) > 0
    [] v.type = "dict" -> DOMAIN v.items # {}
    [] OTHER -> TRUE

\* `a or b`
Or(a, b) == IF Truthy(a) THEN a ELSE b

\* d[key] of a dict: KeyError when the key is absent.
GetItem(d, key) ==
  IF key \in DOMAIN d.items THEN d.items[key] ELSE Raise("KeyError")

\* l[0] of a list: IndexError when the list is empty.
First(l) == IF Len(l.items) = 0 THEN Raise("IndexError") ELSE l.items[1]

\* str(v), as the template engine prints an expression's value.
Str(v) == PyStr(v.repr)

(***************************************************************************)
(* container_common.resolve_command_line_for_non_managed: the getters      *)
(***************************************************************************)
\* Mutant: exec_properties.get(input_name, '') in place of the subscript.
input_value_getter_default(input_name) ==
  IF input_name \in DOMAIN exec_properties.items
    THEN exec_properties.items[input_name]
    ELSE PyStr("")

input_value_getter(input_name) == GetItem(exec_properties, input_name)

\* Mutant: the last artifact, [-1], in place of the first.
input_uri_getter_last(input_name) ==
  LET artifacts == GetItem(input_dict, input_name)
  IN  IF IsRaise(artifacts) THEN artifacts
      ELSE IF Len(artifacts.items) = 0 THEN Raise("IndexError")
      ELSE artifacts.items[Len(artifacts.items)].uri

input_uri_getter(input_name) ==
  LET artifacts == GetItem(input_dict, input_name)
      first == IF IsRaise(artifacts) THEN artifacts ELSE First(artifacts)
  IN  IF IsRaise(first) THEN first ELSE first.uri

output_uri_getter(output_name) ==
  LET artifacts == GetItem(output_dict, output_name)
      first == IF IsRaise(artifacts) THEN artifacts ELSE First(artifacts)
  IN  IF IsRaise(first) THEN first ELSE first.uri

(***************************************************************************)
(* _command_line_resolver.resolve_command_line                             *)
(***************************************************************************)
\* The value of one getter invocation, with the invocation itself.
Invoke(getter, name, value) ==
  [value |-> value, calls |-> <<[getter |-> getter, name |-> name]>>]

\* Mutant: the input and output uri getters taken for one another.
expand_command_line_arg_swapped(cmd_arg) ==
  IF cmd_arg.type = "str"
    THEN [value |-> cmd_arg, calls |-> <<>>]
  ELSE IF cmd_arg.type = "InputValuePlaceholder"
    THEN Invoke("input_value_getter", cmd_arg.input_name,
                input_value_getter(cmd_arg.input_name))
  ELSE IF cmd_arg.type = "InputUriPlaceholder"
    THEN Invoke("output_uri_getter", cmd_arg.input_name,
                output_uri_getter(cmd_arg.input_name))
  ELSE IF cmd_arg.type = "OutputUriPlaceholder"
    THEN Invoke("input_uri_getter", cmd_arg.output_name,
                input_uri_getter(cmd_arg.output_name))
  ELSE [value |-> Raise("TypeError"), calls |-> <<>>]

\* Mutant: no final else branch, an unknown token is returned as it is.
expand_command_line_arg_passthrough(cmd_arg) ==
  IF cmd_arg.type = "InputValuePlaceholder"
    THEN Invoke("input_value_getter", cmd_arg.input_name,
                input_value_getter(cmd_arg.input_name))
  ELSE IF cmd_arg.type = "InputUriPlaceholder"
    THEN Invoke("input_uri_getter", cmd_arg.input_name,
                input_uri_getter(cmd_arg.input_name))
  ELSE IF cmd_arg.type = "OutputUriPlaceholder"
    THEN Invoke("output_uri_getter", cmd_arg.output_name,
                output_uri_getter(cmd_arg.output_name))
  ELSE [value |-> cmd_arg, calls |-> <<>>]

\* Resolves a single argument: the value (or the exception raised) and the
\* getters invoked on the way.
expand_command_line_arg(cmd_arg) ==
  IF cmd_arg.type = "str"
    THEN [value |-> cmd_arg, calls |-> <<>>]
  ELSE IF cmd_arg.type = "InputValuePlaceholder"
    THEN Invoke("input_value_getter", cmd_arg.input_name,
                input_value_getter(cmd_arg.input_name))
  ELSE IF cmd_arg.type = "InputUriPlaceholder"
    THEN Invoke("input_uri_getter", cmd_arg.input_name,
                input_uri_getter(cmd_arg.input_name))
  ELSE IF cmd_arg.type = "OutputUriPlaceholder"
    THEN Invoke("output_uri_getter", cmd_arg.output_name,
                output_uri_getter(cmd_arg.output_name))
  ELSE [value |-> Raise("TypeError"), calls |-> <<>>]

\* `container_spec.command or []`, as a sequence.
CommandOf(container_spec) == Or(container_spec.command, PyList(<<>>)).items

\* `assert isinstance(resolved_cmd_arg, Text)`; no check when the
\* interpreter runs with assertions stripped.
AssertIsText(resolved_cmd_arg) == ~debug \/ resolved_cmd_arg.type = "str"

\* executor_spec.ExecutorContainerSpec(image, command=None, args=None)
ExecutorContainerSpec(img, cmd, args) ==
  [type |-> "ExecutorContainerSpec", image |-> img, command |-> cmd,
   args |-> args]

DefaultArgs == None

\* resolve_container_template on a structures.ContainerSpec: the image is
\* read, then resolve_command_line_for_non_managed enters
\* resolve_command_line with an empty resolved_command_line.
EnterResolveCommandLine ==
  /\ pc = "start"
  /\ container_spec_tmpl.type = "ContainerSpec"
  /\ image' = container_spec_tmpl.image
  /\ resolved_command_line' = <<>>
  /\ idx' = 1
  /\ pc' = "loop"
  /\ UNCHANGED <<callVars, getter_calls, render_calls, command, result, error,
                 swaggerVars>>

\* Mutant: a token that fails to resolve is skipped and the loop goes on.
ExpandArg_skips_failure ==
  /\ pc = "loop"
  /\ idx <= Len(CommandOf(container_spec_tmpl))
  /\ LET expanded == expand_command_line_arg(CommandOf(container_spec_tmpl)[idx])
         resolved_cmd_arg == expanded.value
     IN  /\ getter_calls' = getter_calls \o
              [k \in 1..Len(expanded.calls) |->
                 [getter |-> expanded.calls[k].getter,
                  name |-> expanded.calls[k].name, index |-> idx]]
         /\ resolved_command_line' =
              IF IsRaise(resolved_cmd_arg) \/ ~AssertIsText(resolved_cmd_arg)
                THEN resolved_command_line
                ELSE Append(resolved_command_line, resolved_cmd_arg)
         /\ idx' = idx + 1
         /\ UNCHANGED <<pc, error>>
  /\ UNCHANGED <<callVars, render_calls, image, command, result, swaggerVars>>

\* One iteration of `for cmd_arg in (container_spec.command or [])`.
ExpandArg ==
  /\ pc = "loop"
  /\ idx <= Len(CommandOf(container_spec_tmpl))
  /\ LET expanded == expand_command_line_arg(CommandOf(container_spec_tmpl)[idx])
         resolved_cmd_arg == expanded.value
     IN  /\ getter_calls' = getter_calls \o
              [k \in 1..Len(expanded.calls) |->
                 [getter |-> expanded.calls[k].getter,
                  name |-> expanded.calls[k].name, index |-> idx]]
         /\ IF IsRaise(resolved_cmd_arg)
              THEN /\ pc' = "raised"
                   /\ error' = resolved_cmd_arg.repr
                   /\ UNCHANGED <<idx, resolved_command_line>>
            ELSE IF ~AssertIsText(resolved_cmd_arg)
              THEN /\ pc' = "raised"
                   /\ error' = "AssertionError"
                   /\ UNCHANGED <<idx, resolved_command_line>>
            ELSE /\ resolved_command_line' =
                      Append(resolved_command_line, resolved_cmd_arg)
                 /\ idx' = idx + 1
                 /\ UNCHANGED <<pc, error>>
  /\ UNCHANGED <<callVars, render_calls, image, command, result, swaggerVars>>

\* Mutant: args=container_spec_tmpl.args handed to the result.
ReturnResolved_passes_args ==
  /\ pc = "loop"
  /\ idx > Len(CommandOf(container_spec_tmpl))
  /\ result' = ExecutorContainerSpec(image, PyList(resolved_command_line),
                                     container_spec_tmpl.args)
  /\ pc' = "done"
  /\ UNCHANGED <<callVars, idx, resolved_command_line, getter_calls,
                 render_calls, image, command, error, swaggerVars>>

\* The loop is over: resolve_command_line returns resolved_command_line and
\* resolve_container_template wraps it with the image.
ReturnResolved ==
  /\ pc = "loop"
  /\ idx > Len(CommandOf(container_spec_tmpl))
  /\ result' = ExecutorContainerSpec(image, PyList(resolved_command_line),
                                     DefaultArgs)
  /\ pc' = "done"
  /\ UNCHANGED <<callVars, idx, resolved_command_line, getter_calls,
                 render_calls, image, command, error, swaggerVars>>

(***************************************************************************)
(* container_common.resolve_container_template, free-text-template mode    *)
(***************************************************************************)
\* The context dict of resolve_container_template.
Context ==
  PyDict([input_dict |-> input_dict, output_dict |-> output_dict,
          exec_properties |-> exec_properties])

\* jinja2.Template(text).render(context), on the template texts of the
\* model: an expression prints str() of its value and an undefined value
\* prints as the empty string, unbalanced delimiters are a syntax error,
\* text without template syntax is rendered as itself.
Jinja2Render(text, context) ==
  CASE text.repr = "{{ exec_properties['a'] }}" ->
         LET value == GetItem(context.items.exec_properties, "a")
         IN  IF IsRaise(value) THEN PyStr("") ELSE Str(value)
    [] text.repr = "{{" -> Raise("TemplateSyntaxError")
    [] OTHER -> text

\* The rendered text (or the exception raised), with the invocation itself.
_render_text(text, context) ==
  [value |-> Jinja2Render(text, context),
   calls |-> <<[text |-> text, context |-> context]>>]

Min(S) == CHOOSE n \in S : \A m \in S : n <= m

\* Mutant: no `if not items` guard, and the items taken last to first.
_render_items_reversed(items, context) ==
  LET given == Or(items, PyList(<<>>)).items
      list == [k \in 1..Len(given) |-> given[Len(given) + 1 - k]]
      rendered == [k \in 1..Len(list) |-> _render_text(list[k], context)]
      failing == {k \in 1..Len(list) : IsRaise(rendered[k].value)}
      last == IF failing = {} THEN Len(list) ELSE Min(failing)
  IN  [value |-> IF failing = {}
                   THEN PyList([k \in 1..Len(list) |-> rendered[k].value])
                   ELSE rendered[last].value,
       calls |-> [k \in 1..last |-> rendered[k].calls[1]]]

\* `items` itself when it is None or empty; else every item rendered in
\* order, up to the first one that raises.
_render_items(items, context) ==
  IF ~Truthy(items)
    THEN [value |-> items, calls |-> <<>>]
  ELSE LET rendered == [k \in 1..Len(items.items) |->
                          _render_text(items.items[k], context)]
           failing == {k \in 1..Len(items.items) : IsRaise(rendered[k].value)}
           last == IF failing = {} THEN Len(items.items) ELSE Min(failing)
       IN  [value |-> IF failing = {}
                        THEN PyList([k \in 1..Len(items.items) |->
                                       rendered[k].value])
                        ELSE rendered[last].value,
            calls |-> [k \in 1..last |-> rendered[k].calls[1]]]

\* The invocations of one rendering, tagged with the field they render.
Tagged(field, calls) ==
  [k \in 1..Len(calls) |->
     [field |-> field, text |-> calls[k].text, context |-> calls[k].context]]

\* image=_render_text(container_spec_tmpl.image, context)
RenderImage ==
  /\ pc = "start"
  /\ container_spec_tmpl.type # "ContainerSpec"
  /\ LET rendered == _render_text(container_spec_tmpl.image, Context)
     IN  /\ render_calls' = render_calls \o Tagged("image", rendered.calls)
         /\ IF IsRaise(rendered.value)
              THEN /\ pc' = "raised"
                   /\ error' = rendered.value.repr
                   /\ UNCHANGED image
              ELSE /\ pc' = "render_command"
                   /\ image' = rendered.value
                   /\ UNCHANGED error
  /\ UNCHANGED <<callVars, idx, resolved_command_line, getter_calls, command,
                 result, swaggerVars>>

\* command=_render_items(container_spec_tmpl.command, context)
RenderCommand ==
  /\ pc = "render_command"
  /\ LET rendered == _render_items(container_spec_tmpl.command, Context)
     IN  /\ render_calls' = render_calls \o Tagged("command", rendered.calls)
         /\ IF IsRaise(rendered.value)
              THEN /\ pc' = "raised"
                   /\ error' = rendered.value.repr
                   /\ UNCHANGED command
              ELSE /\ pc' = "render_args"
                   /\ command' = rendered.value
                   /\ UNCHANGED error
  /\ UNCHANGED <<callVars, idx, resolved_command_line, getter_calls, image,
                 result, swaggerVars>>

\* args=_render_items(container_spec_tmpl.args, context), then the
\* ExecutorContainerSpec is built and returned.
RenderArgs ==
  /\ pc = "render_args"
  /\ LET rendered == _render_items(container_spec_tmpl.args, Context)
     IN  /\ render_calls' = render_calls \o Tagged("args", rendered.calls)
         /\ IF IsRaise(rendered.value)
              THEN /\ pc' = "raised"
                   /\ error' = rendered.value.repr
                   /\ UNCHANGED result
              ELSE /\ pc' = "done"
                   /\ result' = ExecutorContainerSpec(image, command,
                                                      rendered.value)
                   /\ UNCHANGED error
  /\ UNCHANGED <<callVars, idx, resolved_command_line, getter_calls, image,
                 command, swaggerVars>>

(***************************************************************************)
(* The calls of resolve_container_template                                 *)
(***************************************************************************)
\* Names the placeholders and templates refer to; "b" is a key of no dict.
Names == {"a", "b"}

Tokens ==
  {PyStr("run"), PyInt("7")}
    \cup {InputValuePlaceholder(n) : n \in Names}
    \cup {InputUriPlaceholder(n) : n \in Names}
    \cup {OutputUriPlaceholder(n) : n \in Names}

TemplateTexts == {PyStr("run"), PyStr("{{ exec_properties['a'] }}"), PyStr("{{")}

OptionalLists(S) == {None} \cup {PyList(q) : q \in SeqsUpTo(S, MaxLen)}

\* structures.ContainerSpec: typed-placeholder mode.
TypedTemplates ==
  {[type |-> "ContainerSpec", image |-> PyStr("{{ exec_properties['a'] }}"),
    command |-> c, args |-> PyList(<<PyStr("{{ exec_properties['a'] }}")>>)] :
     c \in OptionalLists(Tokens)}

\* executor_spec.ExecutorContainerSpec: free-text-template mode.
FreeTextTemplates ==
  {[type |-> "ExecutorContainerSpec", image |-> img, command |-> c,
    args |-> a] :
     img \in TemplateTexts, c \in OptionalLists(TemplateTexts),
     a \in OptionalLists(TemplateTexts)}

ExecProperties ==
  {PyDict(<<>>), PyDict([a |-> PyStr("10")]), PyDict([a |-> PyInt("10")])}

ArtifactDicts(prefix) ==
  {PyDict(<<>>),
   PyDict([a |-> PyList(<<>>)]),
   PyDict([a |-> PyList(<<Artifact(prefix \o "/1")>>)]),
   PyDict([a |-> PyList(<<Artifact(prefix \o "/1"), Artifact(prefix \o "/2")>>)])}

Init ==
  /\ container_spec_tmpl \in TypedTemplates \cup FreeTextTemplates
  /\ input_dict \in ArtifactDicts("gs://in")
  /\ output_dict \in ArtifactDicts("gs://out")
  /\ exec_properties \in ExecProperties
  /\ debug \in BOOLEAN
  /\ pc = "start"
  /\ idx = 0
  /\ resolved_command_line = <<>>
  /\ getter_calls = <<>>
  /\ render_calls = <<>>
  /\ image = None
  /\ command = None
  /\ result = None
  /\ error = "none"
  /\ config = None
  /\ swagger = None

Next ==
  \/ EnterResolveCommandLine
  \/ ExpandArg
  \/ ReturnResolved
  \/ RenderImage
  \/ RenderCommand
  \/ RenderArgs

Spec == Init /\ [][Next]_vars

(***************************************************************************)
(* container_common.to_swagger_dict                                        *)
(***************************************************************************)
\* A swagger code generated object: its attributes are the record's fields,
\* attribute_map maps each attribute name to its swagger name.
SwaggerObject(api_version, spec) ==
  [type |-> "V1Pod",
   attribute_map |-> PyDict([api_version |-> "apiVersion", spec |-> "podSpec"]),
   api_version |-> api_version,
   spec |-> spec]

\* hasattr(config, name)
HasAttr(cfg, name) == name \in DOMAIN cfg

\* getattr(config, key)
GetAttr(cfg, key) == cfg[key]

\* The (key, swagger_name) items of attribute_map that pass the filter
\* `if getattr(config, key)`.
KeptItems(cfg) ==
  {key \in DOMAIN cfg.attribute_map.items : Truthy(GetAttr(cfg, key))}

\* Mutant: the attribute name, not the swagger name, keys the mapping.
RECURSIVE to_swagger_dict_internal_keys(_)
to_swagger_dict_internal_keys(cfg) ==
  IF cfg.type = "list"
    THEN PyList([k \in 1..Len(cfg.items) |->
                   to_swagger_dict_internal_keys(cfg.items[k])])
  ELSE IF HasAttr(cfg, "attribute_map")
    THEN PyDict([key \in KeptItems(cfg) |->
                   to_swagger_dict_internal_keys(GetAttr(cfg, key))])
  ELSE IF cfg.type = "dict"
    THEN PyDict([key \in DOMAIN cfg.items |->
                   to_swagger_dict_internal_keys(cfg.items[key])])
  ELSE cfg

\* Mutant: the filter tests the converted value, not the attribute.
RECURSIVE to_swagger_dict_filter_after(_)
to_swagger_dict_filter_after(cfg) ==
  IF cfg.type = "list"
    THEN PyList([k \in 1..Len(cfg.items) |->
                   to_swagger_dict_filter_after(cfg.items[k])])
  ELSE IF HasAttr(cfg, "attribute_map")
    THEN LET kept == {key \in DOMAIN cfg.attribute_map.items :
                        Truthy(to_swagger_dict_filter_after(GetAttr(cfg, key)))}
         IN  PyDict(
               [swagger_name \in {cfg.attribute_map.items[key] : key \in kept} |->
                  to_swagger_dict_filter_after(GetAttr(cfg,
                    CHOOSE key \in kept :
                      cfg.attribute_map.items[key] = swagger_name))])
  ELSE IF cfg.type = "dict"
    THEN PyDict([key \in DOMAIN cfg.items |->
                   to_swagger_dict_filter_after(cfg.items[key])])
  ELSE cfg

RECURSIVE to_swagger_dict(_)
to_swagger_dict(cfg) ==
  IF cfg.type = "list"
    THEN PyList([k \in 1..Len(cfg.items) |-> to_swagger_dict(cfg.items[k])])
  ELSE IF HasAttr(cfg, "attribute_map")
    THEN PyDict(
           [swagger_name \in {cfg.attribute_map.items[key] : key \in KeptItems(cfg)} |->
              to_swagger_dict(GetAttr(cfg,
                CHOOSE key \in KeptItems(cfg) :
                  cfg.attribute_map.items[key] = swagger_name))])
  ELSE IF cfg.type = "dict"
    THEN PyDict([key \in DOMAIN cfg.items |-> to_swagger_dict(cfg.items[key])])
  ELSE cfg

\* One call of to_swagger_dict.
ToSwaggerDict ==
  /\ pc = "start"
  /\ swagger' = to_swagger_dict(config)
  /\ pc' = "done"
  /\ UNCHANGED <<callVars, idx, resolved_command_line, getter_calls,
                 render_calls, image, command, result, error, config>>

\* The configs of the model: scalars and empty containers, then objects,
\* lists and dicts of them, then objects, lists and dicts of some of those.
False == [type |-> "bool", repr |-> "False"]

Leaves ==
  {None, False, PyStr(""), PyStr("x"), PyInt("0"), PyList(<<>>), PyDict(<<>>)}

Objects(V) == {SwaggerObject(a, b) : a \in V, b \in V}

Lists(V) == {PyList(<<a>>) : a \in V} \cup {PyList(<<a, b>>) : a \in V, b \in V}

Dicts(V) ==
  {PyDict([name |-> a]) : a \in V}
    \cup {PyDict([name |-> a, image |-> b]) : a \in V, b \in V}

Nested ==
  {PyStr(""), PyStr("x"),
   SwaggerObject(None, PyStr("")), SwaggerObject(PyStr("x"), PyList(<<>>)),
   PyList(<<PyStr("")>>), PyList(<<SwaggerObject(PyInt("0"), False)>>),
   PyDict([name |-> PyStr("")]), PyDict([name |-> SwaggerObject(None, None)])}

Configs ==
  Leaves \cup Objects(Leaves) \cup Lists(Leaves) \cup Dicts(Leaves)
    \cup Objects(Nested) \cup Lists(Nested) \cup Dicts(Nested)

InitSwagger ==
  /\ config \in Configs
  /\ swagger = None
  /\ container_spec_tmpl = None
  /\ input_dict = None
  /\ output_dict = None
  /\ exec_properties = None
  /\ debug = TRUE
  /\ pc = "start"
  /\ idx = 0
  /\ resolved_command_line = <<>>
  /\ getter_calls = <<>>
  /\ render_calls = <<>>
  /\ image = None
  /\ command = None
  /\ result = None
  /\ error = "none"

NextSwagger == ToSwaggerDict

SpecSwagger == InitSwagger /\ [][NextSwagger]_vars

(***************************************************************************)
(* Vocabulary of the properties, stated on the arguments of the call and   *)
(* not through the operators above                                         *)
(***************************************************************************)
Typed == container_spec_tmpl.type = "ContainerSpec"

FreeText == container_spec_tmpl.type = "ExecutorContainerSpec"

Terminal == pc \in {"done", "raised"}

\* The tokens of the template's command, an absent command having none.
Cmd ==
  IF container_spec_tmpl.command = None THEN <<>>
  ELSE container_spec_tmpl.command.items

IsLiteral(tok) == tok.type = "str"

IsPlaceholder(tok) ==
  tok.type \in {"InputValuePlaceholder", "InputUriPlaceholder",
                "OutputUriPlaceholder"}

IsUnknown(tok) == ~IsLiteral(tok) /\ ~IsPlaceholder(tok)

\* The name a placeholder refers to and the mapping it is looked up in.
NameOf(tok) ==
  IF tok.type = "OutputUriPlaceholder" THEN tok.output_name ELSE tok.input_name

SourceOf(tok) ==
  CASE tok.type = "InputValuePlaceholder" -> exec_properties
    [] tok.type = "InputUriPlaceholder" -> input_dict
    [] tok.type = "OutputUriPlaceholder" -> output_dict

GetterOf(tok) ==
  CASE tok.type = "InputValuePlaceholder" -> "input_value_getter"
    [] tok.type = "InputUriPlaceholder" -> "input_uri_getter"
    [] tok.type = "OutputUriPlaceholder" -> "output_uri_getter"

MissingName(tok) ==
  IsPlaceholder(tok) /\ NameOf(tok) \notin DOMAIN SourceOf(tok).items

EmptyArtifacts(tok) ==
  /\ tok.type \in {"InputUriPlaceholder", "OutputUriPlaceholder"}
  /\ NameOf(tok) \in DOMAIN SourceOf(tok).items
  /\ SourceOf(tok).items[NameOf(tok)].items = <<>>

\* The value is an exec property that is not a string, and assertions are on.
NotText(tok) ==
  /\ tok.type = "InputValuePlaceholder"
  /\ NameOf(tok) \in DOMAIN exec_properties.items
  /\ exec_properties.items[NameOf(tok)].type # "str"
  /\ debug

\* The error of a token that does not resolve, "none" for one that does.
ErrorOf(tok) ==
  IF IsUnknown(tok) THEN "TypeError"
  ELSE IF MissingName(tok) THEN "KeyError"
  ELSE IF EmptyArtifacts(tok) THEN "IndexError"
  ELSE IF NotText(tok) THEN "AssertionError"
  ELSE "none"

Resolves(tok) == ErrorOf(tok) = "none"

\* Python: KeyError and IndexError are the subclasses of LookupError.
LookupErrors == {"KeyError", "IndexError"}

(***************************************************************************)
(* Properties of resolve_command_line and resolve_container_template       *)
(***************************************************************************)
\* What the getter wired to a placeholder returns for it.
GetterValue(tok) ==
  CASE tok.type = "InputValuePlaceholder" -> input_value_getter(tok.input_name)
    [] tok.type = "InputUriPlaceholder" -> input_uri_getter(tok.input_name)
    [] tok.type = "OutputUriPlaceholder" -> output_uri_getter(tok.output_name)

\* C1: when resolution of a command of N tokens succeeds, the result has
\* exactly N elements and element k is token k itself when it is a literal,
\* and otherwise what the getter of that placeholder returns.
C1_LengthAndOrder ==
  (Typed /\ pc = "done") =>
    /\ result.command.type = "list"
    /\ Len(result.command.items) = Len(Cmd)
    /\ \A k \in 1..Len(Cmd) :
         result.command.items[k] =
           IF IsLiteral(Cmd[k]) THEN Cmd[k] ELSE GetterValue(Cmd[k])

C1_Witness ==
  /\ Typed /\ pc = "done"
  /\ Len(Cmd) = 2
  /\ IsLiteral(Cmd[1]) /\ Cmd[2].type = "InputUriPlaceholder"

\* C2: each placeholder is resolved from its own source only:
\* InputValuePlaceholder from exec_properties[name], InputUriPlaceholder
\* from the uri of the first artifact of input_dict[name],
\* OutputUriPlaceholder from the uri of the first artifact of
\* output_dict[name].
C2_OwnSourceFirstArtifact ==
  (Typed /\ pc = "done") =>
    \A k \in 1..Len(Cmd) :
      /\ Cmd[k].type = "InputValuePlaceholder" =>
           result.command.items[k] = exec_properties.items[Cmd[k].input_name]
      /\ Cmd[k].type = "InputUriPlaceholder" =>
           result.command.items[k] =
             input_dict.items[Cmd[k].input_name].items[1].uri
      /\ Cmd[k].type = "OutputUriPlaceholder" =>
           result.command.items[k] =
             output_dict.items[Cmd[k].output_name].items[1].uri

C2_Witness ==
  /\ Typed /\ pc = "done"
  /\ Len(Cmd) = 2
  /\ Cmd[1].type = "InputUriPlaceholder" /\ Cmd[2].type = "OutputUriPlaceholder"
  /\ Len(input_dict.items["a"].items) = 2
  /\ Len(output_dict.items["a"].items) = 2
  /\ "a" \in DOMAIN exec_properties.items

ExecPropertiesAreText ==
  \A name \in DOMAIN exec_properties.items :
    exec_properties.items[name].type = "str"

\* C3 as stated: whenever some placeholder refers to a name that is no key
\* of its source, or to an empty artifact list, resolution fails with a
\* LookupError and returns no command list. (Stated on the calls whose
\* exec_properties hold strings, where no assertion can fail.)
C3_LookupErrorWhenever ==
  (Typed /\ Terminal /\ ExecPropertiesAreText) =>
    \A k \in 1..Len(Cmd) :
      (MissingName(Cmd[k]) \/ EmptyArtifacts(Cmd[k])) =>
        pc = "raised" /\ error \in LookupErrors /\ result = None

\* C3 amended: whenever some placeholder refers to a name that is no key of
\* its source or to an empty artifact list, no command list is returned;
\* and when every token before that placeholder resolves, the error is
\* KeyError (a LookupError) for the missing name and IndexError for the
\* empty artifact list.
C3_LookupErrorWhenFirst ==
  (Typed /\ Terminal) =>
    \A k \in 1..Len(Cmd) :
      /\ (MissingName(Cmd[k]) \/ EmptyArtifacts(Cmd[k])) =>
           pc = "raised" /\ result = None
      /\ (\A j \in 1..(k - 1) : Resolves(Cmd[j])) =>
           /\ MissingName(Cmd[k]) => error = "KeyError"
           /\ EmptyArtifacts(Cmd[k]) => error = "IndexError"

C3_Witness ==
  /\ Typed /\ pc = "raised"
  /\ Len(Cmd) = 2
  /\ IsPlaceholder(Cmd[1]) /\ Resolves(Cmd[1])
  /\ MissingName(Cmd[2])
  /\ error = "KeyError"

\* C4: a token that is neither a literal nor one of the three placeholders
\* makes resolution fail with TypeError when every token before it
\* resolves, and no getter is ever invoked for such a token.
C4_TypeErrorOnUnknown ==
  Typed =>
    \A k \in 1..Len(Cmd) :
      IsUnknown(Cmd[k]) =>
        /\ \A c \in 1..Len(getter_calls) : getter_calls[c].index # k
        /\ (Terminal /\ \A j \in 1..(k - 1) : Resolves(Cmd[j])) =>
             pc = "raised" /\ error = "TypeError" /\ result = None

C4_Witness ==
  /\ Typed /\ pc = "raised"
  /\ Len(Cmd) = 2
  /\ IsPlaceholder(Cmd[1]) /\ IsUnknown(Cmd[2])
  /\ error = "TypeError"

\* C5: when every token is a literal or a known placeholder, every name is
\* a key of its source and every referenced artifact list is non-empty,
\* resolution succeeds with strings only, whatever scalars exec_properties
\* holds; and a failure is a LookupError, a TypeError or an IndexError.
C5_SucceedsWithStrings ==
  Typed =>
    /\ pc = "raised" => error \in LookupErrors \cup {"TypeError"}
    /\ (/\ Terminal
        /\ \A k \in 1..Len(Cmd) :
             /\ ~IsUnknown(Cmd[k])
             /\ ~MissingName(Cmd[k])
             /\ ~EmptyArtifacts(Cmd[k]))
         => /\ pc = "done"
            /\ \A k \in 1..Len(Cmd) : result.command.items[k].type = "str"

\* C6: on a structures.ContainerSpec the result carries the template's
\* image as it is, the resolved command line as command, and no args; the
\* template's args are not used and nothing is rendered.
C6_TypedResult ==
  (Typed /\ pc = "done") =>
    /\ result.image = container_spec_tmpl.image
    /\ result.command = [type |-> "list", items |-> resolved_command_line]
    /\ Len(resolved_command_line) = Len(Cmd)
    /\ result.args \in {None, [type |-> "list", items |-> <<>>]}
    /\ render_calls = <<>>

C6_Witness ==
  /\ Typed /\ pc = "done"
  /\ Len(Cmd) = 2
  /\ Truthy(container_spec_tmpl.args)
  /\ result.image.repr = "{{ exec_properties['a'] }}"

\* The items of a field of the template, an absent field having none.
ItemsOf(field) ==
  IF container_spec_tmpl[field] = None THEN <<>>
  ELSE container_spec_tmpl[field].items

\* The context: exactly the three dictionaries of the call.
RawContext ==
  [type |-> "dict",
   items |-> [input_dict |-> input_dict, output_dict |-> output_dict,
              exec_properties |-> exec_properties]]

\* C7: in free-text-template mode every rendering is against the context
\* binding input_dict, output_dict and exec_properties to the dictionaries
\* of the call; the result holds the rendered image, and for command and
\* args the renderings of the template's items in the template's order; an
\* empty or absent command or args gives an empty field and is never
\* handed to the renderer.
C7_FreeTextRendering ==
  FreeText =>
    /\ \A c \in 1..Len(render_calls) : render_calls[c].context = RawContext
    /\ pc = "done" =>
         /\ result.image = Jinja2Render(container_spec_tmpl.image, RawContext)
         /\ \A field \in {"command", "args"} :
              IF ItemsOf(field) = <<>>
                THEN /\ result[field] \in {None, [type |-> "list", items |-> <<>>]}
                     /\ \A c \in 1..Len(render_calls) :
                          render_calls[c].field # field
                ELSE /\ Len(result[field].items) = Len(ItemsOf(field))
                     /\ \A k \in 1..Len(ItemsOf(field)) :
                          result[field].items[k] =
                            Jinja2Render(ItemsOf(field)[k], RawContext)
         /\ [c \in 1..Len(render_calls) |->
               <<render_calls[c].field, render_calls[c].text>>]
              = <<<<"image", container_spec_tmpl.image>>>>
                  \o [k \in 1..Len(ItemsOf("command")) |->
                        <<"command", ItemsOf("command")[k]>>]
                  \o [k \in 1..Len(ItemsOf("args")) |->
                        <<"args", ItemsOf("args")[k]>>]

C7_Witness ==
  /\ FreeText /\ pc = "done"
  /\ Len(ItemsOf("command")) = 2
  /\ ItemsOf("command")[1].repr = "run"
  /\ ItemsOf("command")[2].repr = "{{ exec_properties['a'] }}"
  /\ container_spec_tmpl.args = None
  /\ result.command.items = <<PyStr("run"), PyStr("10")>>
  /\ exec_properties.items["a"].type = "int"

\* The tokens whose resolution has been attempted so far.
Attempted ==
  IF pc = "start" THEN 0 ELSE IF pc = "raised" THEN idx ELSE idx - 1

\* C9: tokens are resolved in command order, a placeholder invoking its
\* getter once and nothing else invoking any; when a token fails, the call
\* fails with that token's error, every token before it has resolved, no
\* getter is invoked for a later token and nothing is returned; a command
\* list is returned only when every token has resolved.
C9_NoPartialSuccess ==
  Typed =>
    /\ \A c \in 1..Len(getter_calls) :
         /\ getter_calls[c].index \in 1..Attempted
         /\ \A d \in 1..(c - 1) : getter_calls[d].index < getter_calls[c].index
    /\ \A k \in 1..Attempted :
         LET mine == {c \in 1..Len(getter_calls) : getter_calls[c].index = k}
         IN  IF IsPlaceholder(Cmd[k])
               THEN /\ Cardinality(mine) = 1
                    /\ \A c \in mine :
                         /\ getter_calls[c].getter = GetterOf(Cmd[k])
                         /\ getter_calls[c].name = NameOf(Cmd[k])
               ELSE mine = {}
    /\ pc # "start" =>
         /\ Len(resolved_command_line) = idx - 1
         /\ \A k \in 1..(idx - 1) : Resolves(Cmd[k])
    /\ pc = "raised" =>
         /\ ~Resolves(Cmd[idx])
         /\ error = ErrorOf(Cmd[idx])
         /\ result = None
    /\ pc = "done" =>
         /\ idx = Len(Cmd) + 1
         /\ result.command.items = resolved_command_line
    /\ pc # "done" => result = None

C9_Witness ==
  /\ Typed /\ pc = "raised"
  /\ Len(Cmd) = 2
  /\ idx = 1
  /\ IsPlaceholder(Cmd[1]) /\ IsPlaceholder(Cmd[2])
  /\ Len(getter_calls) = 1

(***************************************************************************)
(* Properties of to_swagger_dict                                           *)
(***************************************************************************)
FalsyValues ==
  {None, False, PyStr(""), PyInt("0"), PyList(<<>>), PyDict(<<>>)}

IsSwaggerObject(cfg) == "attribute_map" \in DOMAIN cfg

\* out is cfg with every swagger object replaced by the mapping from the
\* swagger names of its non-empty fields to their flattened values.
RECURSIVE IsFlattening(_, _)
IsFlattening(cfg, out) ==
  IF IsSwaggerObject(cfg)
    THEN LET names == cfg.attribute_map.items
             kept == {key \in DOMAIN names : cfg[key] \notin FalsyValues}
         IN  /\ out.type = "dict"
             /\ DOMAIN out.items = {names[key] : key \in kept}
             /\ \A key \in kept : IsFlattening(cfg[key], out.items[names[key]])
  ELSE IF cfg.type = "list"
    THEN /\ out.type = "list"
         /\ Len(out.items) = Len(cfg.items)
         /\ \A k \in 1..Len(cfg.items) : IsFlattening(cfg.items[k], out.items[k])
  ELSE IF cfg.type = "dict"
    THEN /\ out.type = "dict"
         /\ DOMAIN out.items = DOMAIN cfg.items
         /\ \A key \in DOMAIN cfg.items :
              IsFlattening(cfg.items[key], out.items[key])
  ELSE out = cfg

\* C8: an object with an attribute_map becomes a mapping keyed by the
\* swagger names of its non-empty fields, each with its value flattened,
\* the empty fields being left out; lists are flattened element by
\* element, in order.
C8_Flattening == pc = "done" => IsFlattening(config, swagger)

C8_Witness ==
  /\ pc = "done"
  /\ config = SwaggerObject(PyStr(""), PyList(<<SwaggerObject(PyInt("0"), False)>>))
  /\ swagger = PyDict([podSpec |-> PyList(<<PyDict(<<>>)>>)])

AllFieldsFalsy(cfg) ==
  /\ IsSwaggerObject(cfg)
  /\ \A key \in DOMAIN cfg.attribute_map.items : cfg[key] \in FalsyValues

\* C10: a field holding an object all of whose fields are empty is kept,
\* as an empty mapping under its swagger name; a plain dict keeps every
\* key and a list every position, their empty values as they are.
C10_OmissionOnRawValue ==
  pc = "done" =>
    /\ IsSwaggerObject(config) =>
         \A key \in DOMAIN config.attribute_map.items :
           AllFieldsFalsy(config[key]) =>
             /\ config.attribute_map.items[key] \in DOMAIN swagger.items
             /\ swagger.items[config.attribute_map.items[key]]
                  = [type |-> "dict", items |-> <<>>]
    /\ (~IsSwaggerObject(config) /\ config.type = "dict") =>
         /\ DOMAIN swagger.items = DOMAIN config.items
         /\ \A key \in DOMAIN config.items :
              config.items[key] \in FalsyValues =>
                swagger.items[key] = config.items[key]
    /\ config.type = "list" =>
         /\ Len(swagger.items) = Len(config.items)
         /\ \A k \in 1..Len(config.items) :
              config.items[k] \in FalsyValues =>
                swagger.items[k] = config.items[k]

C10_Witness ==
  /\ pc = "done"
  /\ config = SwaggerObject(PyStr("x"), SwaggerObject(None, PyStr("")))
  /\ swagger = PyDict([apiVersion |-> PyStr("x"), podSpec |-> PyDict(<<>>)])

====
